---- MODULE Spec2Model ----
(***************************************************************************)
(* EasyLSB: least-significant-bit steganography over a bitmap pixel grid.  *)
(* The module models the EasyLSB object (src/EasyLSB.cpp): the channel     *)
(* accessor that walks the colour channels, the capacity check run by the  *)
(* two constructors, and the encode() / decode() loops, one action per     *)
(* loop iteration.  The pixel grid comes from the BitmapParser base class: *)
(* pixels()[row][col] is a pixel with the channels red, green and blue,    *)
(* pixels().size() is the height and pixels()[0].size() the width.         *)
(***************************************************************************)
EXTENDS Integers, Sequences, FiniteSets, TLC

VARIABLES
    pc,         \* position of main(): new, encode_len, encode_msg, encoded,
                \* decode_len, decode_msg, decoded, error
    mode,       \* "encode" (-e) or "decode" (-d)
    width,      \* infoheader().width  = pixels()[0].size()
    height,     \* infoheader().height = pixels().size()
    pixels,     \* the pixel grid of the object, [row][col][channel]
    msg,        \* EasyLSB::msg
    c,          \* EasyLSB::c, the ChannelAccessor
    len,        \* local uint16_t len of encode() and decode()
    shift,      \* local int shift of the loops of encode()
    letter,     \* position in msg of the range-for of encode() (1-based)
    i,          \* local size_t i of the loops of decode()
    j,          \* local size_t j of decode()
    char_byte,  \* local unsigned char char_byte of decode()
    error,      \* what() of the exception thrown by check_size, or "none"
    outfile,    \* the image written by save(outfile), or NoFile
    stdout,     \* the messages written to std::cout by decode()
    message,    \* argv[2] of the encode run (the message given by the user)
    infile,     \* the pixel grid as loaded from argv's input image
    advances,   \* number of calls of next_channel() by the running object
    lastop,     \* the channel access of the last loop iteration
    script,     \* the command lines still to run after the current one
    arg,        \* input of the function applied by the last harness step
    out         \* its result

vars == <<pc, mode, width, height, pixels, msg, c, len, shift, letter, i, j,
          char_byte, error, outfile, stdout, message, infile, advances,
          lastop, arg, out, script>>

----------------------------------------------------------------------------
(* Bounds of the model.                                                    *)

MaxWidth == 4
MaxHeight == 2
MaxMsgLen == 4
MaxDecodeLen == 512
EncRun == 5
MaxRun == 2

MsgBytes == {104, 233}
FillBytes == {0, 4, 165, 255}

----------------------------------------------------------------------------
(* Program constants.                                                      *)

BITS_PER_BYTE == 8
NUM_LENGTH_BITS == 16
MAX_MSG_LENGTH == 65535
MASK == 1

NoFile == <<>>
NoOp == [kind |-> "none"]
Idle == [fn |-> "none"]

RED == "red"
GREEN == "green"
BLUE == "blue"
Color == {RED, GREEN, BLUE}

----------------------------------------------------------------------------
(* Machine arithmetic.                                                     *)

RECURSIVE Pow2(_)
Pow2(n) == IF n = 0 THEN 1 ELSE 2 * Pow2(n - 1)

\* bit p of the unsigned value x
BitAt(x, p) == (x \div Pow2(p)) % 2

\* x & y and x | y on values below 2^n
RECURSIVE BitAnd(_, _, _)
BitAnd(x, y, n) ==
    IF n = 0 THEN 0
    ELSE (x % 2) * (y % 2) + 2 * BitAnd(x \div 2, y \div 2, n - 1)

RECURSIVE BitOr(_, _, _)
BitOr(x, y, n) ==
    IF n = 0 THEN 0
    ELSE (IF x % 2 = 1 \/ y % 2 = 1 THEN 1 ELSE 0)
         + 2 * BitOr(x \div 2, y \div 2, n - 1)

\* width in bits of int, the promoted type of the shifted operands
IntBits == 32

\* (uint8_t)(x << n) for x in 0..1: a shift by IntBits or more is undefined;
\* the hardware either takes the count modulo IntBits or shifts everything out
ShlByte(x, n) ==
    IF n < BITS_PER_BYTE THEN {(x * Pow2(n)) % 256}
    ELSE IF n < IntBits THEN {0}
    ELSE {0, IF n % IntBits < BITS_PER_BYTE
             THEN (x * Pow2(n % IntBits)) % 256 ELSE 0}

\* x >> n for x in 0..255, same undefined case
ShrByte(x, n) ==
    IF n < BITS_PER_BYTE THEN {x \div Pow2(n)}
    ELSE IF n < IntBits THEN {0}
    ELSE {0, IF n % IntBits < BITS_PER_BYTE
             THEN x \div Pow2(n % IntBits) ELSE 0}

----------------------------------------------------------------------------
(* ChannelAccessor.                                                        *)

\* wrap_mask() with the mask of wrap 1 mistyped as 0b11111001
wrap_mask_typo(wraparounds) ==
    CASE wraparounds = 0 -> 254
      [] wraparounds = 1 -> 249
      [] wraparounds = 2 -> 251
      [] wraparounds = 3 -> 247
      [] wraparounds = 4 -> 239
      [] wraparounds = 5 -> 223
      [] wraparounds = 6 -> 191
      [] wraparounds = 7 -> 127
      [] OTHER -> 0

wrap_mask(wraparounds) ==
    CASE wraparounds = 0 -> 254
      [] wraparounds = 1 -> 253
      [] wraparounds = 2 -> 251
      [] wraparounds = 3 -> 247
      [] wraparounds = 4 -> 239
      [] wraparounds = 5 -> 223
      [] wraparounds = 6 -> 191
      [] wraparounds = 7 -> 127
      [] OTHER -> 0

\* bitmask() with the mask of wrap 3 mistyped as 0b00011000
bitmask_typo(wraparounds) ==
    CASE wraparounds = 0 -> 1
      [] wraparounds = 1 -> 2
      [] wraparounds = 2 -> 4
      [] wraparounds = 3 -> 24
      [] wraparounds = 4 -> 16
      [] wraparounds = 5 -> 32
      [] wraparounds = 6 -> 64
      [] wraparounds = 7 -> 128
      [] OTHER -> 0

bitmask(wraparounds) ==
    CASE wraparounds = 0 -> 1
      [] wraparounds = 1 -> 2
      [] wraparounds = 2 -> 4
      [] wraparounds = 3 -> 8
      [] wraparounds = 4 -> 16
      [] wraparounds = 5 -> 32
      [] wraparounds = 6 -> 64
      [] wraparounds = 7 -> 128
      [] OTHER -> 0

\* ptr is the address of one channel of one pixel
ChannelAt(row, col, color) == [row |-> row, col |-> col, color |-> color]

\* the accessor after construction, over any grid
ChannelAccessor ==
    [row |-> 0, col |-> 0, wraparounds |-> 0, color |-> RED,
     ptr |-> ChannelAt(0, 0, RED)]

get_channel(px, acc) == px[acc.ptr.row][acc.ptr.col][acc.ptr.color]

replace_channel(px, acc, new_value) ==
    [px EXCEPT ![acc.ptr.row][acc.ptr.col][acc.ptr.color] = new_value]

get_wraparounds(acc) == acc.wraparounds

\* next_channel() with ++wraparounds at the end of every row
next_channel_wrap_per_row(acc, w, h) ==
    CASE acc.color = RED ->
            [acc EXCEPT !.color = GREEN,
                        !.ptr = ChannelAt(acc.row, acc.col, GREEN)]
      [] acc.color = GREEN ->
            [acc EXCEPT !.color = BLUE,
                        !.ptr = ChannelAt(acc.row, acc.col, BLUE)]
      [] acc.color = BLUE ->
            LET row1 == IF acc.col < w - 1 THEN acc.row
                        ELSE IF acc.row < h - 1 THEN acc.row + 1 ELSE 0
                col1 == IF acc.col < w - 1 THEN acc.col + 1 ELSE 0
                wrap1 == IF acc.col < w - 1
                         THEN acc.wraparounds ELSE acc.wraparounds + 1
            IN  [row |-> row1, col |-> col1, wraparounds |-> wrap1,
                 color |-> RED, ptr |-> ChannelAt(row1, col1, RED)]

\* next_channel() over a grid of h rows and w columns
next_channel(acc, w, h) ==
    CASE acc.color = RED ->
            [acc EXCEPT !.color = GREEN,
                        !.ptr = ChannelAt(acc.row, acc.col, GREEN)]
      [] acc.color = GREEN ->
            [acc EXCEPT !.color = BLUE,
                        !.ptr = ChannelAt(acc.row, acc.col, BLUE)]
      [] acc.color = BLUE ->
            LET row1 == IF acc.col < w - 1 THEN acc.row
                        ELSE IF acc.row < h - 1 THEN acc.row + 1 ELSE 0
                col1 == IF acc.col < w - 1 THEN acc.col + 1 ELSE 0
                wrap1 == IF acc.col < w - 1 \/ acc.row < h - 1
                         THEN acc.wraparounds ELSE acc.wraparounds + 1
            IN  [row |-> row1, col |-> col1, wraparounds |-> wrap1,
                 color |-> RED, ptr |-> ChannelAt(row1, col1, RED)]

----------------------------------------------------------------------------
(* Capacity check of the constructors.                                     *)

SizeError == "Image is not large enough to hold message!"
LengthError == "Message length exceeds maximum of 65535 chars!"

\* check_size() without the test of the message length
check_size_no_max(length, w, h) ==
    IF length * BITS_PER_BYTE + NUM_LENGTH_BITS > w * h * BITS_PER_BYTE
    THEN SizeError
    ELSE "none"

\* check_size() counting the three channels of a pixel
check_size_three_channels(length, w, h) ==
    IF length * BITS_PER_BYTE + NUM_LENGTH_BITS > 3 * w * h * BITS_PER_BYTE
    THEN SizeError
    ELSE IF length > MAX_MSG_LENGTH THEN LengthError
    ELSE "none"

\* check_size(): the error thrown, or "none"
check_size(length, w, h) ==
    IF length * BITS_PER_BYTE + NUM_LENGTH_BITS > w * h * BITS_PER_BYTE
    THEN SizeError
    ELSE IF length > MAX_MSG_LENGTH THEN LengthError
    ELSE "none"

\* main() calling encode() or decode() whatever the constructor did
AfterConstructionUnchecked(m, err) ==
    IF m = "encode" THEN "encode_len" ELSE "decode_len"

\* main() after a constructor returned or threw: encode() or decode() runs
\* only on a constructed object
AfterConstruction(m, err) ==
    IF err # "none" THEN "error"
    ELSE IF m = "encode" THEN "encode_len" ELSE "decode_len"

----------------------------------------------------------------------------
(* Input images and messages.                                              *)

Rows(h) == 0 .. h - 1
Cols(w) == 0 .. w - 1

ColorIndex(color) == CASE color = RED -> 0 [] color = GREEN -> 1
                       [] color = BLUE -> 2

\* position of a channel in the traversal of one bit plane
ChannelIndex(row, col, color, w) == (row * w + col) * 3 + ColorIndex(color)

\* an image whose r channels from position k on hold a and the others b
Image(w, h, a, b, k, r) ==
    [row \in Rows(h) |-> [col \in Cols(w) |->
        [color \in Color |->
            IF ChannelIndex(row, col, color, w) \in k .. k + r - 1
            THEN a ELSE b]]]

RECURSIVE Messages(_)
Messages(n) ==
    IF n = 0 THEN {<<>>}
    ELSE LET shorter == Messages(n - 1)
         IN  shorter \cup {Append(m, b) : m \in {s \in shorter : Len(s) = n - 1},
                                          b \in MsgBytes}

----------------------------------------------------------------------------
(* The loop bodies of encode() and decode().                               *)

\* the channel value stored by the write of the length loop of encode()
EncodeLenValue(px, acc, length, sh) ==
    LET encoding_bit == BitAnd(length \div Pow2(sh), MASK, NUM_LENGTH_BITS)
    IN  BitOr(BitAnd(get_channel(px, acc),
                     wrap_mask(get_wraparounds(acc)), BITS_PER_BYTE),
              encoding_bit, BITS_PER_BYTE)

\* the message write of encode() taking the bits of a byte from the least
\* significant one up
EncodeMsgValuesLsbFirst(px, acc, byte, sh) ==
    {BitOr(BitAnd(get_channel(px, acc),
                  wrap_mask(get_wraparounds(acc)), BITS_PER_BYTE),
           encoding_bit, BITS_PER_BYTE) :
        encoding_bit \in ShlByte(BitAnd(byte \div Pow2(BITS_PER_BYTE - 1 - sh),
                                        MASK, BITS_PER_BYTE),
                                 get_wraparounds(acc))}

\* the channel values the write of the message loop of encode() can store
EncodeMsgValues(px, acc, byte, sh) ==
    {BitOr(BitAnd(get_channel(px, acc),
                  wrap_mask(get_wraparounds(acc)), BITS_PER_BYTE),
           encoding_bit, BITS_PER_BYTE) :
        encoding_bit \in ShlByte(BitAnd(byte \div Pow2(sh), MASK, BITS_PER_BYTE),
                                 get_wraparounds(acc))}

\* len after the i-th iteration of the length loop of decode()
DecodeLenValue(px, acc, length, k) ==
    LET bit == BitAnd(get_channel(px, acc),
                      bitmask(get_wraparounds(acc)), BITS_PER_BYTE)
        shifted == (bit * Pow2(NUM_LENGTH_BITS - 1 - k)) % Pow2(NUM_LENGTH_BITS)
    IN  BitOr(length, shifted, NUM_LENGTH_BITS)

\* the values char_byte can have after the j-th iteration of the byte loop
DecodeByteValues(px, acc, byte, k) ==
    {BitOr(byte, (bit * Pow2(BITS_PER_BYTE - 1 - k)) % 256, BITS_PER_BYTE) :
        bit \in {b % 256 :
                   b \in ShrByte(BitAnd(get_channel(px, acc),
                                        bitmask(get_wraparounds(acc)),
                                        BITS_PER_BYTE),
                                 get_wraparounds(acc))}}

\* len as left by the whole length loop of decode() on a grid, from the k-th
\* iteration on
RECURSIVE LengthField(_, _, _, _, _, _)
LengthField(px, acc, length, k, w, h) ==
    IF k = NUM_LENGTH_BITS THEN length
    ELSE LengthField(px, next_channel(acc, w, h),
                     DecodeLenValue(px, acc, length, k), k + 1, w, h)

\* the images given to a decode run: those whose length field announces at
\* most MaxDecodeLen bytes
DecodeInput(px, w, h) ==
    LengthField(px, ChannelAccessor, 0, 0, w, h) <= MaxDecodeLen

\* the channel values the k-th write of encode() can store for message m:
\* a length bit for the first NUM_LENGTH_BITS writes, a message bit after
EncodeValues(px, acc, m, k) ==
    IF k < NUM_LENGTH_BITS
    THEN {EncodeLenValue(px, acc, Len(m) % Pow2(NUM_LENGTH_BITS),
                         NUM_LENGTH_BITS - 1 - k)}
    ELSE EncodeMsgValues(px, acc,
             m[((k - NUM_LENGTH_BITS) \div BITS_PER_BYTE) + 1],
             BITS_PER_BYTE - 1 - ((k - NUM_LENGTH_BITS) % BITS_PER_BYTE))

\* the grids the two loops of encode() can leave for message m, S being the
\* grids and cursors that can be reached before the k-th write
RECURSIVE EncodedImages(_, _, _, _, _)
EncodedImages(S, m, k, w, h) ==
    IF k >= NUM_LENGTH_BITS + BITS_PER_BYTE * Len(m) THEN {s.px : s \in S}
    ELSE EncodedImages(
             UNION {{[px |-> replace_channel(s.px, s.acc, v),
                      acc |-> next_channel(s.acc, w, h)] :
                         v \in EncodeValues(s.px, s.acc, m, k)} : s \in S},
             m, k + 1, w, h)

\* the command lines run after "-e" on grid px and message m: none, or "-d"
\* on the written file. The runs with "-d" are those in which the written
\* file is one of the inputs given to decode runs (DecodeInput); every
\* encode run is also present with no command after it.
Scripts(px, m, w, h) ==
    {<<>>} \cup
    (IF /\ check_size(Len(m), w, h) = "none"
        /\ \A e \in EncodedImages({[px |-> px, acc |-> ChannelAccessor]},
                                   m, 0, w, h) : DecodeInput(e, w, h)
     THEN {<<"-d">>} ELSE {})

Access(kind, phase, acc, old, new) ==
    [kind |-> kind, phase |-> phase, ptr |-> acc.ptr,
     plane |-> acc.wraparounds, old |-> old, new |-> new]

----------------------------------------------------------------------------
(* Initial states: main() called with -e or -d on an input image.          *)

InitObject ==
    /\ len = 0 /\ shift = 0 /\ letter = 0 /\ i = 0 /\ j = 0 /\ char_byte = 0
    /\ error = "none"
    /\ outfile = NoFile
    /\ stdout = <<>>
    /\ advances = 0
    /\ lastop = NoOp

InitCommon ==
    /\ pc = "new"
    /\ c = ChannelAccessor
    /\ InitObject
    /\ arg = Idle
    /\ out = Idle

InitEncode ==
    /\ mode = "encode"
    /\ width \in 1 .. MaxWidth
    /\ height \in 1 .. MaxHeight
    /\ \E a \in FillBytes, b \in FillBytes, r \in {0, EncRun} :
          infile = Image(width, height, a, b, 0, r)
    /\ pixels = infile
    /\ message \in Messages(MaxMsgLen)
    /\ msg = message
    /\ script \in Scripts(infile, message, width, height)
    /\ InitCommon

InitDecode ==
    /\ mode = "decode"
    /\ width \in 1 .. MaxWidth
    /\ height \in 1 .. MaxHeight
    /\ \E a \in FillBytes, b \in FillBytes,
          k \in 0 .. 3 * width * height - 1, r \in 0 .. MaxRun :
          infile = Image(width, height, a, b, k, r)
    /\ DecodeInput(infile, width, height)
    /\ pixels = infile
    /\ message = <<>>
    /\ msg = <<>>
    /\ script = <<>>
    /\ InitCommon

Init == InitEncode \/ InitDecode

----------------------------------------------------------------------------
(* Actions.                                                                *)

\* construction followed by a length loop of encode() that starts at shift 16
ConstructLongLoop ==
    /\ pc = "new"
    /\ LET err == check_size(Len(msg), width, height)
           next == AfterConstruction(mode, err)
       IN  /\ error' = err
           /\ pc' = next
           /\ len' = IF next = "encode_len" THEN Len(msg) % Pow2(NUM_LENGTH_BITS)
                     ELSE 0
           /\ shift' = IF next = "encode_len" THEN NUM_LENGTH_BITS ELSE 0
    /\ i' = 0
    /\ UNCHANGED <<mode, width, height, pixels, msg, c, letter, j, char_byte,
                   outfile, stdout, message, infile, advances, lastop, arg, out,
                   script>>

\* EasyLSB steg(argv[2], argv[3], argv[4]) or EasyLSB unsteg(argv[2]),
\* up to the entry of encode() or decode()
Construct ==
    /\ pc = "new"
    /\ LET err == check_size(Len(msg), width, height)
           next == AfterConstruction(mode, err)
       IN  /\ error' = err
           /\ pc' = next
           /\ len' = IF next = "encode_len" THEN Len(msg) % Pow2(NUM_LENGTH_BITS)
                     ELSE 0
           /\ shift' = IF next = "encode_len" THEN NUM_LENGTH_BITS - 1 ELSE 0
    /\ i' = 0
    /\ UNCHANGED <<mode, width, height, pixels, msg, c, letter, j, char_byte,
                   outfile, stdout, message, infile, advances, lastop, arg, out,
                   script>>

\* one iteration of the length loop of encode()
EncodeLenStep ==
    /\ pc = "encode_len"
    /\ LET new == EncodeLenValue(pixels, c, len, shift)
       IN  /\ pixels' = replace_channel(pixels, c, new)
           /\ lastop' = Access("write", "length", c, get_channel(pixels, c), new)
    /\ c' = next_channel(c, width, height)
    /\ advances' = advances + 1
    /\ IF shift > 0
       THEN /\ shift' = shift - 1
            /\ UNCHANGED <<pc, letter>>
       ELSE /\ pc' = "encode_msg"
            /\ letter' = 1
            /\ shift' = BITS_PER_BYTE - 1
    /\ UNCHANGED <<mode, width, height, msg, len, i, j, char_byte, error,
                   outfile, stdout, message, infile, arg, out,
                   script>>

\* one iteration of the inner loop of the message loop of encode()
EncodeMsgStep ==
    /\ pc = "encode_msg"
    /\ letter <= Len(msg)
    /\ \E new \in EncodeMsgValues(pixels, c, msg[letter], shift) :
           /\ pixels' = replace_channel(pixels, c, new)
           /\ lastop' = Access("write", "message", c, get_channel(pixels, c), new)
    /\ c' = next_channel(c, width, height)
    /\ advances' = advances + 1
    /\ IF shift > 0
       THEN /\ shift' = shift - 1
            /\ letter' = letter
       ELSE /\ shift' = BITS_PER_BYTE - 1
            /\ letter' = letter + 1
    /\ UNCHANGED <<pc, mode, width, height, msg, len, i, j, char_byte, error,
                   outfile, stdout, message, infile, arg, out,
                   script>>

\* save(outfile) at the end of encode()
Save ==
    /\ pc = "encode_msg"
    /\ letter > Len(msg)
    /\ outfile' = pixels
    /\ pc' = "encoded"
    /\ UNCHANGED <<mode, width, height, pixels, msg, c, len, shift, letter, i, j,
                   char_byte, error, stdout, message, infile, advances, lastop,
                   arg, out,
                   script>>

\* the next command line, main() with -d on the image written by the encode
\* run
DecodeOutfile ==
    /\ pc = "encoded"
    /\ script # <<>>
    /\ Head(script) = "-d"
    /\ script' = Tail(script)
    /\ mode' = "decode"
    /\ infile' = outfile
    /\ pixels' = outfile
    /\ msg' = <<>>
    /\ c' = ChannelAccessor
    /\ pc' = "new"
    /\ len' = 0 /\ shift' = 0 /\ letter' = 0 /\ i' = 0 /\ j' = 0
    /\ char_byte' = 0
    /\ advances' = 0
    /\ lastop' = NoOp
    /\ UNCHANGED <<width, height, error, outfile, stdout, message, arg, out>>

\* the length loop of decode() clearing each bit it has read
DecodeLenStepClearing ==
    /\ pc = "decode_len"
    /\ len' = DecodeLenValue(pixels, c, len, i)
    /\ pixels' = replace_channel(pixels, c,
                     BitAnd(get_channel(pixels, c),
                            wrap_mask(get_wraparounds(c)), BITS_PER_BYTE))
    /\ lastop' = Access("read", "length", c, get_channel(pixels, c),
                        get_channel(pixels, c))
    /\ c' = next_channel(c, width, height)
    /\ advances' = advances + 1
    /\ IF i + 1 < NUM_LENGTH_BITS
       THEN /\ i' = i + 1
            /\ pc' = pc
       ELSE /\ i' = 0
            /\ pc' = "decode_msg"
    /\ UNCHANGED <<mode, width, height, msg, shift, letter, j, char_byte,
                   error, outfile, stdout, message, infile, arg, out,
                   script>>

\* one iteration of the length loop of decode()
DecodeLenStep ==
    /\ pc = "decode_len"
    /\ len' = DecodeLenValue(pixels, c, len, i)
    /\ lastop' = Access("read", "length", c, get_channel(pixels, c),
                        get_channel(pixels, c))
    /\ c' = next_channel(c, width, height)
    /\ advances' = advances + 1
    /\ IF i + 1 < NUM_LENGTH_BITS
       THEN /\ i' = i + 1
            /\ pc' = pc
       ELSE /\ i' = 0
            /\ pc' = "decode_msg"
    /\ UNCHANGED <<mode, width, height, pixels, msg, shift, letter, j, char_byte,
                   error, outfile, stdout, message, infile, arg, out,
                   script>>

\* one iteration of the inner loop of the byte loop of decode()
DecodeMsgStep ==
    /\ pc = "decode_msg"
    /\ i < len
    /\ \E byte \in DecodeByteValues(pixels, c, char_byte, j) :
          IF j + 1 < BITS_PER_BYTE
          THEN /\ char_byte' = byte
               /\ j' = j + 1
               /\ UNCHANGED <<msg, i>>
          ELSE /\ msg' = Append(msg, byte)
               /\ char_byte' = 0
               /\ j' = 0
               /\ i' = i + 1
    /\ lastop' = Access("read", "message", c, get_channel(pixels, c),
                        get_channel(pixels, c))
    /\ c' = next_channel(c, width, height)
    /\ advances' = advances + 1
    /\ UNCHANGED <<pc, mode, width, height, pixels, len, shift, letter, error,
                   outfile, stdout, message, infile, arg, out,
                   script>>

\* std::cout << msg at the end of decode()
Output ==
    /\ pc = "decode_msg"
    /\ i >= len
    /\ stdout' = Append(stdout, msg)
    /\ pc' = "decoded"
    /\ UNCHANGED <<mode, width, height, pixels, msg, c, len, shift, letter, i, j,
                   char_byte, error, outfile, message, infile, advances, lastop,
                   arg, out,
                   script>>

Next ==
    \/ Construct
    \/ EncodeLenStep
    \/ EncodeMsgStep
    \/ Save
    \/ DecodeOutfile
    \/ DecodeLenStep
    \/ DecodeMsgStep
    \/ Output

Spec == Init /\ [][Next]_vars

\* a started process runs on: main() is single-threaded and nothing in the
\* constructor, encode() or decode() waits
Run ==
    \/ Construct
    \/ EncodeLenStep
    \/ EncodeMsgStep
    \/ Save
    \/ DecodeLenStep
    \/ DecodeMsgStep
    \/ Output

\* the runs followed to their end: uniform images for encode, images with at
\* most one channel set apart for decode
MaxLiveWidth == 3
MaxLiveHeight == 2
MaxLiveMsgLen == 2

InitLive ==
    /\ width \in 1 .. MaxLiveWidth
    /\ height \in 1 .. MaxLiveHeight
    /\ \/ /\ mode = "encode"
          /\ \E b \in FillBytes : infile = Image(width, height, b, b, 0, 0)
          /\ message \in Messages(MaxLiveMsgLen)
          /\ script \in Scripts(infile, message, width, height)
       \/ /\ mode = "decode"
          /\ \E a \in FillBytes, b \in FillBytes,
                k \in 0 .. 3 * width * height - 1, r \in 0 .. 1 :
                infile = Image(width, height, a, b, k, r)
          /\ DecodeInput(infile, width, height)
          /\ message = <<>>
          /\ script = <<>>
    /\ pixels = infile
    /\ msg = message
    /\ InitCommon

SpecLive == InitLive /\ [][Next]_vars /\ WF_vars(Run)

----------------------------------------------------------------------------
(* The capacity check, the masks and the traversal on their own: each      *)
(* specification draws the arguments of one function and applies it.  The  *)
(* object is one constructed by the decode constructor over a black image. *)

MaxSizeLen == 4
MaxSizeDim == 3
BigDim == 1024
MaxMaskArg == 9
MaxStartPlane == 7
CursorLaps == 2

ByteValues == 0 .. 255
SizeLengths ==
    (0 .. MaxSizeLen) \cup {MAX_MSG_LENGTH - 1, MAX_MSG_LENGTH,
                            MAX_MSG_LENGTH + 1, 2 * MAX_MSG_LENGTH}
SizeDims == (1 .. MaxSizeDim) \cup {BigDim}

InitBlackImage(w, h, acc) ==
    /\ mode = "decode"
    /\ script = <<>>
    /\ c = acc
    /\ width = w
    /\ height = h
    /\ infile = Image(w, h, 0, 0, 0, 0)
    /\ pixels = infile
    /\ message = <<>>
    /\ msg = <<>>
    /\ InitObject

UnchangedObject ==
    UNCHANGED <<pc, mode, width, height, pixels, msg, c, len, shift, letter, i,
                j, char_byte, error, outfile, stdout, message, infile,
                advances, lastop, script>>

\* check_size() applied to a message length and the dimensions of an image
InitSize ==
    /\ InitBlackImage(2, 1, ChannelAccessor)
    /\ pc = "check_size"
    /\ \E length \in SizeLengths, w \in SizeDims, h \in SizeDims :
          arg = [fn |-> "check_size", length |-> length, width |-> w,
                 height |-> h]
    /\ out = Idle

ApplyCheckSize ==
    /\ pc = "check_size"
    /\ out = Idle
    /\ out' = [fn |-> "check_size",
               error |-> check_size(arg.length, arg.width, arg.height)]
    /\ UNCHANGED arg
    /\ UnchangedObject

SpecSize == InitSize /\ [][ApplyCheckSize]_vars

\* wrap_mask() and bitmask() applied to a number of wraps and a channel value
InitMask ==
    /\ InitBlackImage(2, 1, ChannelAccessor)
    /\ pc = "masks"
    /\ \E w \in 0 .. MaxMaskArg, v \in ByteValues :
          arg = [fn |-> "masks", wraparounds |-> w, value |-> v]
    /\ out = Idle

ApplyMasks ==
    /\ pc = "masks"
    /\ out = Idle
    /\ out' = [fn |-> "masks",
               wrap_mask |-> wrap_mask(arg.wraparounds),
               bitmask |-> bitmask(arg.wraparounds),
               cleared |-> BitAnd(arg.value, wrap_mask(arg.wraparounds),
                                  BITS_PER_BYTE),
               isolated |-> BitAnd(arg.value, bitmask(arg.wraparounds),
                                   BITS_PER_BYTE)]
    /\ UNCHANGED arg
    /\ UnchangedObject

SpecMask == InitMask /\ [][ApplyMasks]_vars

\* next_channel() called again and again from the red channel of pixel (0, 0)
InitCursor ==
    /\ pc = "next_channel"
    /\ \E p \in 0 .. MaxStartPlane :
          arg = [fn |-> "next_channel", wraparounds |-> p]
    /\ \E w \in 1 .. MaxWidth, h \in 1 .. MaxHeight :
          InitBlackImage(w, h, [ChannelAccessor EXCEPT
                                  !.wraparounds = arg.wraparounds])
    /\ out = Idle

ApplyNextChannel ==
    /\ pc = "next_channel"
    /\ advances < CursorLaps * 3 * width * height
    /\ c' = next_channel(c, width, height)
    /\ advances' = advances + 1
    /\ UNCHANGED <<pc, mode, width, height, pixels, msg, len, shift, letter,
                   i, j, char_byte, error, outfile, stdout, message, infile,
                   lastop, arg, out, script>>

SpecCursor == InitCursor /\ [][ApplyNextChannel]_vars

----------------------------------------------------------------------------
(* Properties of the encode and decode runs.                               *)

Channels(w, h) == 3 * w * h
FrameBits(length) == NUM_LENGTH_BITS + BITS_PER_BYTE * length
IsPrefix(s, t) == Len(s) <= Len(t) /\ \A n \in 1 .. Len(s) : s[n] = t[n]

\* C1: round trip - the decode run on the image written by an encode run of
\* message m assembles m: the length field it reads is len(m), the bytes it
\* has appended are a prefix of m, and the message it outputs is m
C1_RoundTrip ==
    (mode = "decode" /\ outfile # NoFile) =>
        /\ pc = "decode_msg" => (len = Len(message) /\ IsPrefix(msg, message))
        /\ pc = "decoded" => stdout = <<message>>

\* C2: capacity acceptance - a constructor raises no error whenever the
\* message length is at most 65535 and 16 + 8*len fits in the 3*width*height*8
\* bits of the eight planes
C2_Acceptance ==
    (pc # "new" /\ Len(msg) <= MAX_MSG_LENGTH
     /\ FrameBits(Len(msg)) <= Channels(width, height) * BITS_PER_BYTE)
        => error = "none"

\* C4: non-mutation on failure - once the capacity check has failed no channel
\* of the grid differs from the loaded image and save() has not been called
C4_NoMutationOnFailure ==
    error # "none" => (pixels = infile /\ outfile = NoFile /\ advances = 0)

C4_Witness ==
    /\ pc = "error" /\ mode = "encode" /\ error = SizeError
    /\ Len(msg) = 2 /\ width * height = 3 /\ pixels = infile

\* C5: plane-index range - every read or write of a channel bit by encode()
\* or decode() happens with wraparounds in 0..7
C5_PlaneRange ==
    lastop.kind \in {"read", "write"} => lastop.plane \in 0 .. 7

\* C6: decode re-validation - decode() reads no message bit when the length
\* field it has read needs more than the 3*width*height*8 bits of 8 wraparounds
C6_Revalidation ==
    (lastop.kind = "read" /\ lastop.phase = "message")
        => FrameBits(len) <= Channels(width, height) * BITS_PER_BYTE

\* C7: encode frame and final cursor - with N = 16 + 8*len and C = 3*width*
\* height, encode() leaves every bit (channel, plane) whose traversal position
\* plane*C + channel is N or more as it was loaded, and on completion the
\* accessor has advanced N times: channel N mod C, wraparounds N div C
C7_EncodeFrame ==
    LET n == FrameBits(Len(msg))
        ch == Channels(width, height)
    IN  /\ (mode = "encode" /\ pc \in {"encode_len", "encode_msg", "encoded"}) =>
              \A row \in Rows(height), col \in Cols(width), color \in Color,
                 p \in 0 .. BITS_PER_BYTE - 1 :
                  p * ch + ChannelIndex(row, col, color, width) >= n
                      => BitAt(pixels[row][col][color], p)
                         = BitAt(infile[row][col][color], p)
        /\ pc = "encoded" =>
              /\ advances = n
              /\ c.wraparounds = n \div ch
              /\ ChannelIndex(c.row, c.col, c.color, width) = n % ch
              /\ c.ptr = ChannelAt(c.row, c.col, c.color)

C7_Witness ==
    /\ pc = "encoded" /\ Len(msg) = 2 /\ width = 4 /\ height = 1
    /\ advances = 32 /\ c.wraparounds = 2 /\ c.col = 2 /\ c.color = BLUE
    /\ pixels # infile

\* C8: decode is read-only - in a decode run the grid always equals the
\* loaded image
C8_DecodeReadOnly ==
    mode = "decode" => pixels = infile

C8_Witness ==
    /\ pc = "decoded" /\ outfile = NoFile /\ stdout = <<msg>> /\ Len(msg) = 3
    /\ pixels = infile /\ advances = FrameBits(3)

----------------------------------------------------------------------------
(* Properties of the capacity check, the masks and the traversal.          *)

\* C3: capacity rejection - check_size() raises an error whenever
\* 16 + 8*len exceeds 3*width*height*8 and whenever len exceeds 65535
C3_Rejection ==
    out.fn = "check_size" =>
        ((\/ FrameBits(arg.length)
                > Channels(arg.width, arg.height) * BITS_PER_BYTE
          \/ arg.length > MAX_MSG_LENGTH)
            => out.error # "none")

C3_Witness ==
    /\ out.fn = "check_size" /\ arg.length = MAX_MSG_LENGTH + 1
    /\ arg.width = BigDim /\ arg.height = BigDim
    /\ FrameBits(arg.length) <= arg.width * arg.height * BITS_PER_BYTE
    /\ out.error = LengthError

\* C9: bit isolation - for p in 0..7 wrap_mask(p) has every bit set but bit p
\* and bitmask(p) has bit p alone, so their AND is 0 and their OR is 0xFF
C9_BitIsolation ==
    (out.fn = "masks" /\ arg.wraparounds \in 0 .. 7) =>
        /\ BitAnd(out.wrap_mask, out.bitmask, BITS_PER_BYTE) = 0
        /\ BitOr(out.wrap_mask, out.bitmask, BITS_PER_BYTE) = 255
        /\ \A p \in 0 .. 7 :
              /\ BitAt(out.bitmask, p) = (IF p = arg.wraparounds THEN 1 ELSE 0)
              /\ BitAt(out.wrap_mask, p) = (IF p = arg.wraparounds THEN 0 ELSE 1)

C9_Witness ==
    /\ out.fn = "masks" /\ arg.wraparounds = 7 /\ arg.value = 255
    /\ out.wrap_mask = 127 /\ out.bitmask = 128
    /\ out.cleared = 127 /\ out.isolated = 128

\* C10: wraparound boundary - from (row 0, col 0, red) at plane p, wraparounds
\* stays p through fewer than 3*width*height calls of next_channel() and after
\* exactly 3*width*height calls the accessor is at (0, 0, red) at plane p + 1
C10_WrapBoundary ==
    arg.fn = "next_channel" =>
        /\ advances < Channels(width, height)
              => c.wraparounds = arg.wraparounds
        /\ advances = Channels(width, height)
              => c = [ChannelAccessor EXCEPT
                         !.wraparounds = arg.wraparounds + 1]

C10_Witness ==
    /\ arg.fn = "next_channel" /\ width = 3 /\ height = 2 /\ advances = 18
    /\ arg.wraparounds = 4
    /\ c.wraparounds = 5 /\ c.row = 0 /\ c.col = 0 /\ c.color = RED

----------------------------------------------------------------------------
(* Properties of the traversal and of the frame layout.                    *)

ColorAt(n) == CASE n = 0 -> RED [] n = 1 -> GREEN [] n = 2 -> BLUE

\* the accessor a fresh one becomes by n calls of next_channel on a w x h grid
PositionAfter(n, w, h) ==
    LET row == ((n \div 3) \div w) % h
        col == (n \div 3) % w
        color == ColorAt(n % 3)
    IN  [row |-> row, col |-> col, wraparounds |-> n \div (3 * w * h),
         color |-> color, ptr |-> ChannelAt(row, col, color)]

\* bit k of the frame of message m: 16 length bits, then the bytes, each
\* most significant bit first
FrameBit(m, k) ==
    IF k < NUM_LENGTH_BITS
    THEN BitAt(Len(m), NUM_LENGTH_BITS - 1 - k)
    ELSE BitAt(m[((k - NUM_LENGTH_BITS) \div BITS_PER_BYTE) + 1],
               BITS_PER_BYTE - 1 - ((k - NUM_LENGTH_BITS) % BITS_PER_BYTE))

\* C11: traversal order - the accessor of a run starts at (0, 0, red, plane 0)
\* and after n calls of next_channel() is at channel n mod 3, col (n div 3)
\* mod width, row ((n div 3) div width) mod height, plane n div (3*width*
\* height), whatever the channel values, with row < height and col < width
C11_TraversalOrder ==
    pc \in {"new", "encode_len", "encode_msg", "encoded", "decode_len",
            "decode_msg", "decoded", "error"} =>
        /\ c = PositionAfter(advances, width, height)
        /\ c.row \in Rows(height) /\ c.col \in Cols(width)
        /\ advances = 0 => c = ChannelAccessor

C11_Witness ==
    /\ pc = "encode_msg" /\ width = 2 /\ height = 2 /\ advances = 20
    /\ c.row = 1 /\ c.col = 0 /\ c.color = BLUE /\ c.wraparounds = 1
    /\ infile[0][0][RED] = 255 /\ infile[1][1][BLUE] = 0

\* C12: length field in plane 0 - wraparounds is 0 at each of the 16 steps in
\* which encode() writes a length bit or decode() reads one
C12_LengthInPlaneZero ==
    (lastop.kind \in {"read", "write"} /\ lastop.phase = "length")
        => lastop.plane = 0

\* C13: single-bit write - every write of encode() changes at most the bit
\* of the channel at position wraparounds, which becomes the frame bit being
\* emitted; the other 7 bits of the channel are kept
C13_SingleBitWrite ==
    [][(pc \in {"encode_len", "encode_msg"} /\ advances' = advances + 1) =>
          LET old == get_channel(pixels, c)
              new == get_channel(pixels', c)
              bit == IF pc = "encode_len" THEN BitAt(len, shift)
                     ELSE BitAt(msg[letter], shift)
          IN  \A q \in 0 .. BITS_PER_BYTE - 1 :
                 BitAt(new, q) = (IF q = get_wraparounds(c) THEN bit
                                  ELSE BitAt(old, q))]_vars

\* C15: encode stays in the three lowest planes - on a message admitted by
\* check_size() wraparounds never exceeds 2 at any step of encode()
C15_EncodePlanes ==
    mode = "encode" =>
        /\ c.wraparounds <= 2
        /\ lastop.kind = "write" => lastop.plane \in 0 .. 2

C15_Witness ==
    /\ pc = "encode_msg" /\ lastop.kind = "write" /\ lastop.plane = 2
    /\ lastop.phase = "message" /\ width * height = 6 /\ Len(msg) = 4
    /\ c.wraparounds = 2

\* C16: wire format on grids of 16 channels or more - after encode() the bit
\* at the k-th traversal location (plane k div C of channel k mod C, with
\* C = 3*width*height) is the k-th frame bit, for every k below 16 + 8*len
C16_WireFormat ==
    (pc = "encoded" /\ Channels(width, height) >= NUM_LENGTH_BITS) =>
        \A k \in 0 .. FrameBits(Len(msg)) - 1 :
            LET at == PositionAfter(k, width, height)
            IN  BitAt(pixels[at.row][at.col][at.color], at.wraparounds)
                = FrameBit(msg, k)

C16_Witness ==
    /\ pc = "encoded" /\ width = 3 /\ height = 2 /\ msg = <<104, 233, 233, 104>>
    /\ c.wraparounds = 2 /\ infile[0][0][RED] = 255
    /\ pixels[0][0][RED] = 254

----------------------------------------------------------------------------
(* Termination.                                                            *)

\* C14: termination and one advance per bit - encode() ends after exactly
\* 16 + 8*len calls of next_channel(), decode() ends after exactly 16 + 8*L
\* calls with L the length field read from the first 16 bits, and in every
\* step next_channel() is called once exactly when a channel bit is read or
\* written
C14_Termination ==
    /\ [](pc = "encoded" => advances = FrameBits(Len(msg)))
    /\ [](pc = "decoded" =>
            (advances = FrameBits(len) /\ Len(msg) = len
             /\ len \in 0 .. MAX_MSG_LENGTH))
    /\ [][pc # "encoded" =>
            /\ advances' \in {advances, advances + 1}
            /\ (advances' = advances + 1)
                  <=> (lastop' # lastop /\ lastop'.kind \in {"read", "write"})]_vars
    /\ (pc = "encode_len") ~> (pc = "encoded")
    /\ (pc = "decode_len") ~> (pc = "decoded")

C14_Witness ==
    /\ pc = "decoded" /\ outfile = NoFile /\ len = 8 /\ advances = 80
    /\ width = 3 /\ height = 2 /\ c.wraparounds = 4 /\ Len(msg) = 8

====
